---- MODULE Spec2Model ----
(***************************************************************************)
(* The repository analyser notebook (Accelerator_Info.ipynb): the          *)
(* single-repository analysis analyze_github_repository, the formatter     *)
(* format_analysis_results, the batch run analyze_multiple_repositories    *)
(* and the normalization cell, as a state machine over the notebook's      *)
(* variables.  The two helper classes (GitHubRepoAnalyzer,                 *)
(* AzureOpenAIAnalyzer) are external collaborators: each call either       *)
(* raises or returns, and what it returns is drawn from a bounded set.     *)
(***************************************************************************)
EXTENDS Integers, Sequences, FiniteSets, TLC

\* ------------------------------------------------------------------------
\* Bounds of the model.
\* ------------------------------------------------------------------------

\* Longest URL list handed to analyze_multiple_repositories.
MaxUrls == 3

\* Most columns of a table handed to the normalization step on its own.
MaxNormCols == 2

\* Most question keys of a completion result in the single-repository cell.
MaxResultKeys == 2

\* ------------------------------------------------------------------------
\* Python values.  Every value carries its type, so that "Yes", True, 7 and
\* ["a", "b"] are different values and a str is never mistaken for a dict.
\* A dict is its insertion-ordered sequence of <<key, value>> pairs.
\* ------------------------------------------------------------------------

None == [t |-> "none"]

NaN == [t |-> "nan"]

Str(s) == [t |-> "str", v |-> s]

Bool(b) == [t |-> "bool", v |-> b]

Num(n) == [t |-> "int", v |-> n]

List(q) == [t |-> "list", v |-> q]

Dict(pairs) == [t |-> "dict", v |-> pairs]

IsDict(x) == x.t = "dict"

\* bool(x), as `if result:` evaluates it.
Truthy(x) ==
  CASE x.t = "none" -> FALSE
    [] x.t = "nan" -> TRUE
    [] x.t = "str" -> x.v # ""
    [] x.t = "bool" -> x.v
    [] x.t = "int" -> x.v # 0
    [] x.t = "list" -> x.v # << >>
    [] x.t = "dict" -> x.v # << >>

\* The keys of a dict, in insertion order.
Keys(d) == [i \in 1..Len(d.v) |-> d.v[i][1]]

HasKey(d, k) == \E i \in 1..Len(d.v) : d.v[i][1] = k

\* d.get(k, default)
Get(d, k, default) ==
  IF HasKey(d, k)
    THEN d.v[CHOOSE i \in 1..Len(d.v) : d.v[i][1] = k][2]
    ELSE default

\* Whether x.get(...) can be evaluated at all: only a dict has the method;
\* on a str, a list, a number or None it is an AttributeError.
HasGetMethod(x) == IsDict(x)

\* ------------------------------------------------------------------------
\* Strings as sequences of characters, for the URL handling.
\* ------------------------------------------------------------------------

RECURSIVE rstrip(_, _)
\* s.rstrip(c): s without its trailing run of the character c.
rstrip(s, c) ==
  IF s # << >> /\ s[Len(s)] = c
    THEN rstrip(SubSeq(s, 1, Len(s) - 1), c)
    ELSE s

RECURSIVE LastSegment(_, _)
\* s.split(c)[-1]: what follows the last occurrence of c (all of s if none).
LastSegment(s, c) ==
  IF s = << >> \/ s[Len(s)] = c
    THEN << >>
    ELSE Append(LastSegment(SubSeq(s, 1, Len(s) - 1), c), s[Len(s)])

RECURSIVE Text(_)
\* The character sequence as one string.
Text(s) == IF s = << >> THEN "" ELSE s[1] \o Text(Tail(s))

\* url.split('/')[-1]: the name without the rstrip.
RepoName_NoStrip(url) == Text(LastSegment(url, "/"))

\* url.rstrip('/').split('/')[-1]
RepoName(url) == Text(LastSegment(rstrip(url, "/"), "/"))

\* ------------------------------------------------------------------------
\* The inputs: repository URLs, and what the two external calls return.
\* ------------------------------------------------------------------------

GitHubOrg ==
  << "h", "t", "t", "p", "s", ":", "/", "/", "g", "i", "t", "h", "u", "b",
     ".", "c", "o", "m", "/", "o", "r", "g", "/" >>

\* https://github.com/org/repo
UrlRepo == GitHubOrg \o << "r", "e", "p", "o" >>

\* https://github.com/org/repo/
UrlRepoSlash == UrlRepo \o << "/" >>

\* https://github.com/org/chat
UrlChat == GitHubOrg \o << "c", "h", "a", "t" >>

Urls == {UrlRepo, UrlRepoSlash, UrlChat}

RECURSIVE SeqsUpTo(_, _)
\* The sequences over S of length at most n.
SeqsUpTo(S, n) ==
  IF n = 0
    THEN {<< >>}
    ELSE LET shorter == SeqsUpTo(S, n - 1)
         IN  shorter \cup {Append(q, x) : q \in shorter, x \in S}

UrlLists == SeqsUpTo(Urls, MaxUrls)

\* What extract_repo_info returns for a URL: the repository document, which
\* the notebook only passes on to analyze_repo.
RepoData(u) == Dict(<< <<"url", Str(Text(u))>> >>)

\* One answer record {answer, explanation, <confidence key>: confidence}.
Record(answer, confKey, conf) ==
  Dict(<< <<"answer", answer>>, <<"explanation", Str("because")>>,
          <<confKey, Str(conf)>> >>)

\* A completion result as the batch cell's recorded output shows it: "Yes" and
\* "No" answers, the key `confidence`, a key outside the formatter's catalog.
ResultYesNo ==
  Dict(<< <<"rbac_enabled", Record(Str("No"), "confidence", "high")>>,
          <<"chat_history", Record(Str("Yes"), "confidence", "high")>>,
          <<"azure_services_count", Record(Num(11), "confidence", "high")>>,
          <<"differentiators_from_aiflow",
            Record(List(<<"a", "b">>), "confidence", "high")>> >>)

\* A completion result as the single-repository cell's recorded output shows
\* it: true/false answers, the key `confidence_level`, no explanation for the
\* notes, and fewer keys in another order.
ResultBool ==
  Dict(<< <<"chat_history", Record(Bool(FALSE), "confidence_level", "medium")>>,
          <<"rbac_enabled", Record(Bool(TRUE), "confidence_level", "high")>>,
          <<"notes", Dict(<< <<"answer", Str("documented")>>,
                             <<"confidence_level", Str("high")>> >>)>> >>)

\* The completion text handed back unparsed: a bare string.
ResultText == Str("{ rbac_enabled: ... }")

\* A mapping with no keys.
ResultEmpty == Dict(<< >>)

\* What analyze_repo may return in a batch run.
BatchCompletions == {ResultYesNo, ResultBool, ResultText, ResultEmpty}

\* The answers a record may carry.
Answers ==
  {Str("Yes"), Str("No"), Str("yes"), Str("Terraform"), Bool(TRUE),
   Bool(FALSE), Num(7), List(<<"a", "b">>)}

\* The cells of a comparison table: an answer record under either confidence
\* key, a record with no answer, a bare value, a missing cell.
NormCells ==
  {Record(a, k, "high") : a \in Answers, k \in {"confidence", "confidence_level"}}
    \cup Answers
    \cup {NaN, Dict(<< <<"explanation", Str("because")>> >>)}

\* The values a question key may carry in a completion result.
ResultCells == NormCells \ {NaN}

\* Question keys of the formatter's catalog, as the single-repository cell's
\* completion results use them.
ResultKeys == << "rbac_enabled", "notes", "differentiators_from_asksage" >>

RECURSIVE ResultsOver(_)
\* The mappings that give each of the first n ResultKeys a value or leave it
\* out.
ResultsOver(n) ==
  IF n = 0
    THEN {Dict(<< >>)}
    ELSE LET fewer == ResultsOver(n - 1)
         IN  fewer \cup {Dict(Append(d.v, <<ResultKeys[n], c>>)) :
                          d \in fewer, c \in ResultCells}

\* What analyze_repo may return in the single-repository cell.
SingleCompletions == ResultsOver(MaxResultKeys) \cup {ResultText}

\* ------------------------------------------------------------------------
\* str() and repr(), as an f-string applies them.
\* ------------------------------------------------------------------------

Digits == << "0", "1", "2", "3", "4", "5", "6", "7", "8", "9" >>

RECURSIVE NatStr(_)
NatStr(n) ==
  IF n < 10 THEN Digits[n + 1] ELSE NatStr(n \div 10) \o Digits[(n % 10) + 1]

RECURSIVE Joined(_)
\* ", ".join(parts)
Joined(parts) ==
  IF parts = << >>
    THEN ""
    ELSE IF Len(parts) = 1
           THEN parts[1]
           ELSE parts[1] \o ", " \o Joined(Tail(parts))

Quoted(s) == "'" \o s \o "'"

RECURSIVE Repr(_)
\* repr(x)
Repr(x) ==
  CASE x.t = "none" -> "None"
    [] x.t = "nan" -> "nan"
    [] x.t = "str" -> Quoted(x.v)
    [] x.t = "bool" -> IF x.v THEN "True" ELSE "False"
    [] x.t = "int" -> IF x.v < 0 THEN "-" \o NatStr(-x.v) ELSE NatStr(x.v)
    [] x.t = "list" -> "[" \o Joined([i \in 1..Len(x.v) |-> Quoted(x.v[i])]) \o "]"
    [] x.t = "dict" ->
         "{" \o Joined([i \in 1..Len(x.v) |->
                         Quoted(x.v[i][1]) \o ": " \o Repr(x.v[i][2])]) \o "}"

\* str(x): a str is itself, anything else is its repr.
PyStr(x) == IF x.t = "str" THEN x.v ELSE Repr(x)

\* ------------------------------------------------------------------------
\* Tables (pandas DataFrame): an index, the column names in order, and one
\* sequence of cells per row, aligned with the columns.
\* ------------------------------------------------------------------------

RECURSIVE ColumnsOf(_)
\* The column names pd.DataFrame(rows) gives a list of dicts: the keys in the
\* order of their first appearance.
ColumnsOf(rows) ==
  IF rows = << >>
    THEN << >>
    ELSE LET before == ColumnsOf(SubSeq(rows, 1, Len(rows) - 1))
             isNew(k) == \A j \in 1..Len(before) : before[j] # k
         IN  before \o SelectSeq(Keys(rows[Len(rows)]), isNew)

\* pd.DataFrame(rows): a key a row lacks is a NaN cell.
DataFrame(rows) ==
  LET cols == ColumnsOf(rows)
  IN  [t |-> "frame",
       index_name |-> None,
       index |-> [i \in 1..Len(rows) |-> Num(i - 1)],
       columns |-> cols,
       data |-> [i \in 1..Len(rows) |->
                  [j \in 1..Len(cols) |-> Get(rows[i], cols[j], NaN)]]]

\* df.set_index(col): the column becomes the index and leaves the columns.
SetIndex(df, col) ==
  LET at == CHOOSE j \in 1..Len(df.columns) : df.columns[j] = col
      keep == [j \in 1..(Len(df.columns) - 1) |-> IF j < at THEN j ELSE j + 1]
  IN  [t |-> "frame",
       index_name |-> Str(col),
       index |-> [i \in 1..Len(df.data) |-> df.data[i][at]],
       columns |-> [j \in 1..Len(keep) |-> df.columns[keep[j]]],
       data |-> [i \in 1..Len(df.data) |->
                  [j \in 1..Len(keep) |-> df.data[i][keep[j]]]]]

\* What df.to_csv(name) writes: the index column first (under the index's
\* name), then the columns.
CsvWithIndex(df) ==
  [header |-> <<df.index_name>> \o [j \in 1..Len(df.columns) |-> Str(df.columns[j])],
   rows |-> [i \in 1..Len(df.data) |-> <<df.index[i]>> \o df.data[i]]]

\* What df.to_csv(name, index=False) writes: the columns only.
CsvNoIndex(df) ==
  [header |-> [j \in 1..Len(df.columns) |-> Str(df.columns[j])],
   rows |-> df.data]

\* {"Repository Name": repo_name, **result}: the name first, then result's
\* pairs; a "Repository Name" key of result replaces the name in place.
RowWithName(repo_name, result) ==
  LET other(p) == p[1] # "Repository Name"
  IN  Dict(<< <<"Repository Name",
                Get(result, "Repository Name", Str(repo_name))>> >>
           \o SelectSeq(result.v, other))

\* ------------------------------------------------------------------------
\* The state.
\* ------------------------------------------------------------------------

VARIABLES
  pc,          \* where the notebook's control is
  flow,        \* which cell is running: "none", "batch", "single"
  repo_urls,   \* the list handed to analyze_multiple_repositories
  idx,         \* position in repo_urls of the URL being analysed (from 1)
  url,         \* the URL being analysed
  repo_data,   \* analyze_github_repository's repo_data
  result,      \* what analyze_github_repository returned to its caller
  results,     \* analyze_multiple_repositories' results list
  ret,         \* what analyze_multiple_repositories returned
  raised,      \* the exception that ended the running cell, or "none"
  comparison_df,  \* the notebook's comparison_df
  answers_df,     \* the notebook's answers_df
  formatted,   \* the single-repository cell's analysis_result_formatted
  files,       \* the files written: name -> table written
  stdout,      \* the messages printed, in order
  trace        \* the external calls made and the analyses returned, in order

vars ==
  << pc, flow, repo_urls, idx, url, repo_data, result, results, ret, raised,
     comparison_df, answers_df, formatted, files, stdout, trace >>

\* A variable that holds nothing yet (a Python name not yet bound).
Unbound == [t |-> "unbound"]

NoFiles == [name \in {} |-> None]

\* files after a write of table to name.
Written(name, table) ==
  [n \in DOMAIN files \cup {name} |-> IF n = name THEN table ELSE files[n]]

Event(fn, outcome, value) ==
  [fn |-> fn, pos |-> idx, outcome |-> outcome, value |-> value]

Init ==
  /\ pc = "idle"
  /\ flow = "none"
  /\ repo_urls = << >>
  /\ idx = 1
  /\ url = << >>
  /\ repo_data = Unbound
  /\ result = Unbound
  /\ results = << >>
  /\ ret = Unbound
  /\ raised = "none"
  /\ comparison_df = Unbound
  /\ answers_df = Unbound
  /\ formatted = Unbound
  /\ files = NoFiles
  /\ stdout = << >>
  /\ trace = << >>

\* ------------------------------------------------------------------------
\* analyze_github_repository(repo_url)
\* ------------------------------------------------------------------------

\* What analyze_repo may return to the running cell.
Completions == IF flow = "batch" THEN BatchCompletions ELSE SingleCompletions

\* ExtractRaises without its `return None`: control falls through to the
\* completion call.
ExtractRaises_FallsThrough ==
  /\ pc = "extract"
  /\ pc' = "analyze_repo"
  /\ stdout' = Append(stdout, "Error extracting repository data")
  /\ trace' = Append(trace, Event("extract_repo_info", "raise", None))
  /\ UNCHANGED << flow, repo_urls, idx, url, repo_data, result, results, ret,
                  raised, comparison_df, answers_df, formatted, files >>

\* ExtractRaises with one retry: the first failure of the fetch for a URL is
\* printed and the fetch is called again.
ExtractRaises_RetriesOnce ==
  /\ pc = "extract"
  /\ stdout' = Append(stdout, "Error extracting repository data")
  /\ IF \E k \in 1..Len(trace) :
          trace[k].fn = "extract_repo_info" /\ trace[k].pos = idx
       THEN /\ result' = None
            /\ pc' = "analyzed"
            /\ trace' = trace \o
                 << Event("extract_repo_info", "raise", None),
                    Event("analyze_github_repository", "return", None) >>
       ELSE /\ trace' = Append(trace, Event("extract_repo_info", "raise", None))
            /\ UNCHANGED << pc, result >>
  /\ UNCHANGED << flow, repo_urls, idx, url, repo_data, results, ret, raised,
                  comparison_df, answers_df, formatted, files >>

\* extract_repo_info raises: the error is printed and None is returned.
ExtractRaises ==
  /\ pc = "extract"
  /\ result' = None
  /\ pc' = "analyzed"
  /\ stdout' = Append(stdout, "Error extracting repository data")
  /\ trace' = trace \o << Event("extract_repo_info", "raise", None),
                          Event("analyze_github_repository", "return", None) >>
  /\ UNCHANGED << flow, repo_urls, idx, url, repo_data, results, ret, raised,
                  comparison_df, answers_df, formatted, files >>

\* extract_repo_info returns the repository document.
ExtractReturns ==
  /\ pc = "extract"
  /\ repo_data' = RepoData(url)
  /\ pc' = "analyze_repo"
  /\ stdout' = Append(stdout, "Analyzing repository with Azure OpenAI...")
  /\ trace' = Append(trace, Event("extract_repo_info", "return", RepoData(url)))
  /\ UNCHANGED << flow, repo_urls, idx, url, result, results, ret, raised,
                  comparison_df, answers_df, formatted, files >>

\* AnalyzeRepoRaises without its try/except: the error leaves the function.
AnalyzeRepoRaises_Propagates ==
  /\ pc = "analyze_repo"
  /\ raised' = "Exception"
  /\ pc' = "error"
  /\ trace' = Append(trace, Event("analyze_repo", "raise", None))
  /\ UNCHANGED << flow, repo_urls, idx, url, repo_data, result, results, ret,
                  comparison_df, answers_df, formatted, files, stdout >>

\* AnalyzeRepoRaises with a result kept across calls: on a failure the value
\* of the analysis before it is returned (None when there was none).
AnalyzeRepoRaises_ReturnsPrevious ==
  /\ pc = "analyze_repo"
  /\ result' = IF result = Unbound THEN None ELSE result
  /\ pc' = "analyzed"
  /\ stdout' = Append(stdout, "Error during OpenAI analysis")
  /\ trace' = trace \o << Event("analyze_repo", "raise", None),
                          Event("analyze_github_repository", "return", result') >>
  /\ UNCHANGED << flow, repo_urls, idx, url, repo_data, results, ret, raised,
                  comparison_df, answers_df, formatted, files >>

\* analyze_repo raises: the error is printed and None is returned.
AnalyzeRepoRaises ==
  /\ pc = "analyze_repo"
  /\ result' = None
  /\ pc' = "analyzed"
  /\ stdout' = Append(stdout, "Error during OpenAI analysis")
  /\ trace' = trace \o << Event("analyze_repo", "raise", None),
                          Event("analyze_github_repository", "return", None) >>
  /\ UNCHANGED << flow, repo_urls, idx, url, repo_data, results, ret, raised,
                  comparison_df, answers_df, formatted, files >>

\* AnalyzeRepoReturns with a second completion call: analyze_repo is called
\* twice and the second value is returned.
AnalyzeRepoReturns_CallsTwice ==
  /\ pc = "analyze_repo"
  /\ \E first \in Completions : \E analysis_results \in Completions :
       /\ result' = analysis_results
       /\ trace' = trace \o
            << Event("analyze_repo", "return", first),
               Event("analyze_repo", "return", analysis_results),
               Event("analyze_github_repository", "return", analysis_results) >>
  /\ pc' = "analyzed"
  /\ stdout' = Append(stdout, "Analysis complete!")
  /\ UNCHANGED << flow, repo_urls, idx, url, repo_data, results, ret, raised,
                  comparison_df, answers_df, formatted, files >>

\* analyze_repo returns: its value is returned as it is.
AnalyzeRepoReturns ==
  /\ pc = "analyze_repo"
  /\ \E analysis_results \in Completions :
       /\ result' = analysis_results
       /\ trace' = trace \o
            << Event("analyze_repo", "return", analysis_results),
               Event("analyze_github_repository", "return", analysis_results) >>
  /\ pc' = "analyzed"
  /\ stdout' = Append(stdout, "Analysis complete!")
  /\ UNCHANGED << flow, repo_urls, idx, url, repo_data, results, ret, raised,
                  comparison_df, answers_df, formatted, files >>

\* ------------------------------------------------------------------------
\* format_analysis_results(repo_url, results) and the single-repository cell
\* ------------------------------------------------------------------------

\* The formatter's columns whose cell is "{answer} ({confidence})".
ConfidenceColumns ==
  << <<"RBAC Enabled?", "rbac_enabled">>,
     <<"Azure Gov Ready?", "azure_gov_ready">>,
     <<"Azure Secret Ready", "azure_secret_ready">>,
     <<"Chat History?", "chat_history">>,
     <<"# of Azure Services?", "azure_services_count">>,
     <<"Arch Diagram", "architecture_diagram_present">> >>

\* The columns whose cell is the answer itself.
NarrativeColumns ==
  << <<"Differentiators from AskSage", "differentiators_from_asksage">>,
     <<"Differentiators from NIPRGPT", "differentiators_from_niprgpt">>,
     <<"Differentiators from CamoGPT", "differentiators_from_camogpt">> >>

\* The two confidence-bearing columns that follow the narrative ones.
LateConfidenceColumns ==
  << <<"Deployment Method", "deployment_method">>,
     <<"Costs Estimate", "costs_estimate">> >>

\* The question keys the formatter reads.
FormatterKeys ==
  {c[2] : c \in {ConfidenceColumns[i] : i \in 1..Len(ConfidenceColumns)}
            \cup {NarrativeColumns[i] : i \in 1..Len(NarrativeColumns)}
            \cup {LateConfidenceColumns[i] : i \in 1..Len(LateConfidenceColumns)}}
    \cup {"notes"}

\* results.get(key, {})
Field(rs, key) == Get(rs, key, Dict(<< >>))

\* Whether every .get of the formatter can be evaluated: results and each
\* field it reads must be a dict, or the call is an AttributeError.
Formattable(rs) ==
  /\ HasGetMethod(rs)
  /\ \A key \in FormatterKeys : HasGetMethod(Field(rs, key))

\* f"{results.get(key, {}).get('answer', 'Unknown')}
\*    ({results.get(key, {}).get('confidence_level', 'low')})"
ConfidenceCell(rs, key) ==
  Str(PyStr(Get(Field(rs, key), "answer", Str("Unknown")))
      \o " (" \o PyStr(Get(Field(rs, key), "confidence_level", Str("low")))
      \o ")")

\* results.get(key, {}).get('answer', 'Unknown')
NarrativeCell(rs, key) == Get(Field(rs, key), "answer", Str("Unknown"))

\* The dict format_analysis_results returns, when it returns.
Format(repo_url, rs) ==
  Dict(<< <<"Repository URL", Str(Text(repo_url))>> >>
       \o [i \in 1..Len(ConfidenceColumns) |->
            <<ConfidenceColumns[i][1], ConfidenceCell(rs, ConfidenceColumns[i][2])>>]
       \o [i \in 1..Len(NarrativeColumns) |->
            <<NarrativeColumns[i][1], NarrativeCell(rs, NarrativeColumns[i][2])>>]
       \o [i \in 1..Len(LateConfidenceColumns) |->
            <<LateConfidenceColumns[i][1],
              ConfidenceCell(rs, LateConfidenceColumns[i][2])>>]
       \o << <<"Notes", Get(Field(rs, "notes"), "answer", Str(""))>> >>)

\* pd.DataFrame.from_dict(d) for a dict of dicts: one column per key of d, one
\* row per inner key, NaN where an inner dict lacks the key.
FromDict(d) ==
  LET inner == [j \in 1..Len(d.v) |-> d.v[j][2]]
      rowKeys == ColumnsOf(inner)
  IN  [t |-> "frame",
       index_name |-> None,
       index |-> [i \in 1..Len(rowKeys) |-> Str(rowKeys[i])],
       columns |-> Keys(d),
       data |-> [i \in 1..Len(rowKeys) |->
                  [j \in 1..Len(d.v) |-> Get(inner[j], rowKeys[i], NaN)]]]

\* filename = f"{repo_name}_analysis.csv"
AnalysisFile(repo_url) == RepoName(repo_url) \o "_analysis.csv"

\* The single-repository cell calls analyze_github_repository(repo_url).
SingleCell ==
  /\ pc = "idle"
  /\ \E repo_url \in Urls : url' = repo_url
  /\ flow' = "single"
  /\ pc' = "extract"
  /\ stdout' = stdout \o << "Analyzing", "Extracting repository information..." >>
  /\ UNCHANGED << repo_urls, idx, repo_data, result, results, ret, raised,
                  comparison_df, answers_df, formatted, files, trace >>

\* format_analysis_results calls .get on a value that has none: the
\* AttributeError ends the cell.
FormatRaises ==
  /\ pc = "analyzed"
  /\ flow = "single"
  /\ ~Formattable(result)
  /\ raised' = "AttributeError"
  /\ pc' = "error"
  /\ UNCHANGED << flow, repo_urls, idx, url, repo_data, result, results, ret,
                  comparison_df, answers_df, formatted, files, stdout, trace >>

\* The result is formatted, shown as a table and written.
FormatAndSave ==
  /\ pc = "analyzed"
  /\ flow = "single"
  /\ Formattable(result)
  /\ formatted' = Format(url, result)
  /\ files' = Written(AnalysisFile(url), CsvWithIndex(FromDict(result)))
  /\ trace' = Append(trace, Event("to_csv", "return", Str(AnalysisFile(url))))
  /\ stdout' = Append(stdout, "Analysis saved")
  /\ pc' = "single_done"
  /\ UNCHANGED << flow, repo_urls, idx, url, repo_data, result, results, ret,
                  raised, comparison_df, answers_df >>

\* The result is formatted and shown; the write fails and nothing catches it.
FormatAndSaveFails ==
  /\ pc = "analyzed"
  /\ flow = "single"
  /\ Formattable(result)
  /\ formatted' = Format(url, result)
  /\ trace' = Append(trace, Event("to_csv", "raise", Str(AnalysisFile(url))))
  /\ raised' = "OSError"
  /\ pc' = "error"
  /\ UNCHANGED << flow, repo_urls, idx, url, repo_data, result, results, ret,
                  comparison_df, answers_df, files, stdout >>

\* ------------------------------------------------------------------------
\* analyze_multiple_repositories(repo_urls) and the batch cell
\* ------------------------------------------------------------------------

\* The batch cell calls analyze_multiple_repositories(repo_urls).
BatchCell ==
  /\ pc = "idle"
  /\ \E us \in UrlLists : repo_urls' = us
  /\ flow' = "batch"
  /\ results' = << >>
  /\ idx' = 1
  /\ pc' = "loop"
  /\ UNCHANGED << url, repo_data, result, ret, raised, comparison_df,
                  answers_df, formatted, files, stdout, trace >>

\* LoopNext with a fan-out: while the URL at idx is handed to
\* analyze_github_repository, the fetch of the URL after it is already made.
LoopNext_FetchesAhead ==
  /\ pc = "loop"
  /\ flow = "batch"
  /\ idx <= Len(repo_urls)
  /\ url' = repo_urls[idx]
  /\ pc' = "extract"
  /\ stdout' = stdout \o << "Analyzing", "Extracting repository information..." >>
  /\ trace' = IF idx < Len(repo_urls)
                THEN Append(trace, [fn |-> "extract_repo_info",
                                    pos |-> idx + 1,
                                    outcome |-> "return",
                                    value |-> RepoData(repo_urls[idx + 1])])
                ELSE trace
  /\ UNCHANGED << flow, repo_urls, idx, repo_data, result, results, ret,
                  raised, comparison_df, answers_df, formatted, files >>

\* for url in repo_urls: the next URL is handed to analyze_github_repository.
LoopNext ==
  /\ pc = "loop"
  /\ flow = "batch"
  /\ idx <= Len(repo_urls)
  /\ url' = repo_urls[idx]
  /\ pc' = "extract"
  /\ stdout' = stdout \o << "Analyzing", "Extracting repository information..." >>
  /\ UNCHANGED << flow, repo_urls, idx, repo_data, result, results, ret,
                  raised, comparison_df, answers_df, formatted, files, trace >>

\* CollectAppend with the table written inside the loop, after every row.
CollectAppend_SavesEachRow ==
  /\ pc = "analyzed"
  /\ flow = "batch"
  /\ Truthy(result)
  /\ IsDict(result)
  /\ results' = Append(results, RowWithName(RepoName(url), result))
  /\ files' = Written("data/repository_comparison.csv",
                      CsvWithIndex(SetIndex(DataFrame(results'),
                                            "Repository Name")))
  /\ trace' = Append(trace, Event("to_csv", "return",
                                  Str("data/repository_comparison.csv")))
  /\ idx' = idx + 1
  /\ pc' = "loop"
  /\ UNCHANGED << flow, repo_urls, url, repo_data, result, ret, raised,
                  comparison_df, answers_df, formatted, stdout >>

\* if result: with a mapping, the row is appended.
CollectAppend ==
  /\ pc = "analyzed"
  /\ flow = "batch"
  /\ Truthy(result)
  /\ IsDict(result)
  /\ results' = Append(results, RowWithName(RepoName(url), result))
  /\ idx' = idx + 1
  /\ pc' = "loop"
  /\ UNCHANGED << flow, repo_urls, url, repo_data, result, ret, raised,
                  comparison_df, answers_df, formatted, files, stdout, trace >>

\* if result: with a value that is no mapping, {**result} is a TypeError,
\* which nothing catches: the batch ends.
CollectRaises ==
  /\ pc = "analyzed"
  /\ flow = "batch"
  /\ Truthy(result)
  /\ ~IsDict(result)
  /\ raised' = "TypeError"
  /\ pc' = "error"
  /\ UNCHANGED << flow, repo_urls, idx, url, repo_data, result, results, ret,
                  comparison_df, answers_df, formatted, files, stdout, trace >>

\* CollectSkip that starts the list afresh: a URL that is skipped empties
\* results.
CollectSkip_ResetsResults ==
  /\ pc = "analyzed"
  /\ flow = "batch"
  /\ ~Truthy(result)
  /\ results' = << >>
  /\ idx' = idx + 1
  /\ pc' = "loop"
  /\ UNCHANGED << flow, repo_urls, url, repo_data, result, ret, raised,
                  comparison_df, answers_df, formatted, files, stdout, trace >>

\* if result: is false, the URL is skipped.
CollectSkip ==
  /\ pc = "analyzed"
  /\ flow = "batch"
  /\ ~Truthy(result)
  /\ idx' = idx + 1
  /\ pc' = "loop"
  /\ UNCHANGED << flow, repo_urls, url, repo_data, result, results, ret,
                  raised, comparison_df, answers_df, formatted, files, stdout,
                  trace >>

\* The table analyze_multiple_repositories builds from its results.
ComparisonTable == SetIndex(DataFrame(results), "Repository Name")

\* if results: the table is built, written and returned.
AggregateSaves ==
  /\ pc = "loop"
  /\ flow = "batch"
  /\ idx > Len(repo_urls)
  /\ results # << >>
  /\ files' = Written("data/repository_comparison.csv",
                      CsvWithIndex(ComparisonTable))
  /\ trace' = Append(trace, Event("to_csv", "return",
                                  Str("data/repository_comparison.csv")))
  /\ stdout' = Append(stdout, "Analysis saved")
  /\ ret' = ComparisonTable
  /\ pc' = "returned"
  /\ UNCHANGED << flow, repo_urls, idx, url, repo_data, result, results,
                  raised, comparison_df, answers_df, formatted >>

\* AggregateSaveFails with the write inside a try/except: the error is
\* printed and the table is returned all the same.
AggregateSaveFails_Caught ==
  /\ pc = "loop"
  /\ flow = "batch"
  /\ idx > Len(repo_urls)
  /\ results # << >>
  /\ trace' = Append(trace, Event("to_csv", "raise",
                                  Str("data/repository_comparison.csv")))
  /\ stdout' = Append(stdout, "Error saving analysis")
  /\ ret' = ComparisonTable
  /\ pc' = "returned"
  /\ UNCHANGED << flow, repo_urls, idx, url, repo_data, result, results,
                  raised, comparison_df, answers_df, formatted, files >>

\* if results: the write fails, and nothing catches the error.
AggregateSaveFails ==
  /\ pc = "loop"
  /\ flow = "batch"
  /\ idx > Len(repo_urls)
  /\ results # << >>
  /\ trace' = Append(trace, Event("to_csv", "raise",
                                  Str("data/repository_comparison.csv")))
  /\ raised' = "OSError"
  /\ pc' = "error"
  /\ UNCHANGED << flow, repo_urls, idx, url, repo_data, result, results, ret,
                  comparison_df, answers_df, formatted, files, stdout >>

\* AggregateEmpty returning an empty table instead of None.
AggregateEmpty_ReturnsEmptyTable ==
  /\ pc = "loop"
  /\ flow = "batch"
  /\ idx > Len(repo_urls)
  /\ results = << >>
  /\ stdout' = Append(stdout, "No valid analysis results")
  /\ ret' = DataFrame(<< >>)
  /\ pc' = "returned"
  /\ UNCHANGED << flow, repo_urls, idx, url, repo_data, result, results,
                  raised, comparison_df, answers_df, formatted, files, trace >>

\* analyze_multiple_repositories without its `if results:` test: set_index on
\* the table of no rows is a KeyError.
AggregateEmpty_NoGuard ==
  /\ pc = "loop"
  /\ flow = "batch"
  /\ idx > Len(repo_urls)
  /\ results = << >>
  /\ raised' = "KeyError"
  /\ pc' = "error"
  /\ UNCHANGED << flow, repo_urls, idx, url, repo_data, result, results, ret,
                  comparison_df, answers_df, formatted, files, stdout, trace >>

\* else: the message is printed and None is returned.
AggregateEmpty ==
  /\ pc = "loop"
  /\ flow = "batch"
  /\ idx > Len(repo_urls)
  /\ results = << >>
  /\ stdout' = Append(stdout, "No valid analysis results")
  /\ ret' = None
  /\ pc' = "returned"
  /\ UNCHANGED << flow, repo_urls, idx, url, repo_data, result, results,
                  raised, comparison_df, answers_df, formatted, files, trace >>

\* comparison_df = analyze_multiple_repositories(repo_urls), then
\* display(HTML(comparison_df.to_html())): on None an AttributeError.
BatchCellDisplay ==
  /\ pc = "returned"
  /\ comparison_df' = ret
  /\ raised' = IF ret = None THEN "AttributeError" ELSE "none"
  /\ pc' = "cell_done"
  /\ flow' = "none"
  /\ UNCHANGED << repo_urls, idx, url, repo_data, result, results, ret,
                  answers_df, formatted, files, stdout, trace >>

\* ------------------------------------------------------------------------
\* The normalization cell
\* ------------------------------------------------------------------------

\* The lambda reading the key 'value' where it should read 'answer'.
ExtractAnswer_ReadsValue(x) == IF IsDict(x) THEN Get(x, "value", None) ELSE x

\* lambda x: x.get('answer') if isinstance(x, dict)
\*           else (x.get('value') if isinstance(x, dict) else x)
ExtractAnswer(x) ==
  IF IsDict(x)
    THEN Get(x, "answer", None)
    ELSE IF IsDict(x) THEN Get(x, "value", None) ELSE x

\* replace with "yes" and "no" matched in any case.
ReplaceYesNo_AnyCase(x) ==
  IF x \in {Str("Yes"), Str("yes")}
    THEN Bool(TRUE)
    ELSE IF x \in {Str("No"), Str("no")} THEN Bool(FALSE) ELSE x

\* replace({"Yes": "No", "No": False}): a mistyped first entry.
ReplaceYesNo_YesToNo(x) ==
  IF x = Str("Yes")
    THEN Str("No")
    ELSE IF x = Str("No") THEN Bool(FALSE) ELSE x

\* replace({"Yes": True, "No": False}) on one cell.
ReplaceYesNo(x) ==
  IF x = Str("Yes")
    THEN Bool(TRUE)
    ELSE IF x = Str("No") THEN Bool(FALSE) ELSE x

\* The normalization step on a table: applymap of the extraction, then the
\* replacement, on every cell; the index and the column names are kept.
Normalize(df) ==
  [df EXCEPT !.data =
     [i \in 1..Len(df.data) |->
       [j \in 1..Len(df.columns) |-> ReplaceYesNo(ExtractAnswer(df.data[i][j]))]]]

\* NormalizationCell working in place: the normalized table is also assigned
\* to comparison_df.
NormalizationCell_InPlace ==
  /\ pc = "cell_done"
  /\ comparison_df.t = "frame"
  /\ answers_df' = Normalize(comparison_df)
  /\ comparison_df' = Normalize(comparison_df)
  /\ files' = Written("data/formatted_repo_comparison.csv",
                      CsvNoIndex(Normalize(comparison_df)))
  /\ trace' = Append(trace, Event("to_csv", "return",
                                  Str("data/formatted_repo_comparison.csv")))
  /\ raised' = "none"
  /\ pc' = "normalized"
  /\ UNCHANGED << flow, repo_urls, idx, url, repo_data, result, results, ret,
                  formatted, stdout >>

\* The cell on a comparison_df that is a table: answers_df is computed and
\* written without its index.
NormalizationCell ==
  /\ pc = "cell_done"
  /\ comparison_df.t = "frame"
  /\ answers_df' = Normalize(comparison_df)
  /\ files' = Written("data/formatted_repo_comparison.csv",
                      CsvNoIndex(Normalize(comparison_df)))
  /\ trace' = Append(trace, Event("to_csv", "return",
                                  Str("data/formatted_repo_comparison.csv")))
  /\ raised' = "none"
  /\ pc' = "normalized"
  /\ UNCHANGED << flow, repo_urls, idx, url, repo_data, result, results, ret,
                  comparison_df, formatted, stdout >>

\* The cell when its write fails: answers_df is computed, the error is not
\* caught.
NormalizationCellSaveFails ==
  /\ pc = "cell_done"
  /\ comparison_df.t = "frame"
  /\ answers_df' = Normalize(comparison_df)
  /\ trace' = Append(trace, Event("to_csv", "raise",
                                  Str("data/formatted_repo_comparison.csv")))
  /\ raised' = "OSError"
  /\ pc' = "error"
  /\ UNCHANGED << flow, repo_urls, idx, url, repo_data, result, results, ret,
                  comparison_df, formatted, files, stdout >>

\* The cell on a comparison_df that is None: None has no applymap.
NormalizationCellOnNone ==
  /\ pc = "cell_done"
  /\ comparison_df = None
  /\ raised' = "AttributeError"
  /\ pc' = "error"
  /\ UNCHANGED << flow, repo_urls, idx, url, repo_data, result, results, ret,
                  comparison_df, answers_df, formatted, files, stdout, trace >>

\* The normalization step applied to its own output.
Renormalize ==
  /\ pc = "normalized"
  /\ answers_df' = Normalize(answers_df)
  /\ pc' = "renormalized"
  /\ UNCHANGED << flow, repo_urls, idx, url, repo_data, result, results, ret,
                  raised, comparison_df, formatted, files, stdout, trace >>

Next ==
  \/ BatchCell
  \/ LoopNext
  \/ ExtractRaises
  \/ ExtractReturns
  \/ AnalyzeRepoRaises
  \/ AnalyzeRepoReturns
  \/ CollectAppend
  \/ CollectRaises
  \/ CollectSkip
  \/ AggregateSaves
  \/ AggregateSaveFails
  \/ AggregateEmpty
  \/ BatchCellDisplay
  \/ NormalizationCell
  \/ NormalizationCellSaveFails
  \/ NormalizationCellOnNone

Spec == Init /\ [][Next]_vars

\* ------------------------------------------------------------------------
\* The normalization step on its own: comparison_df is any table of one
\* repository whose cells are answer records, bare values or missing.
\* ------------------------------------------------------------------------

NormColumns == << "rbac_enabled", "chat_history", "azure_services_count" >>

\* The one-row tables over the first n columns.
NormFrames(n) ==
  {[t |-> "frame",
    index_name |-> Str("Repository Name"),
    index |-> << Str("repo") >>,
    columns |-> SubSeq(NormColumns, 1, n),
    data |-> << cells >>] : cells \in [1..n -> NormCells]}

InitNorm ==
  /\ pc = "cell_done"
  /\ flow = "none"
  /\ repo_urls = << >>
  /\ idx = 1
  /\ url = << >>
  /\ repo_data = Unbound
  /\ result = Unbound
  /\ results = << >>
  /\ ret = Unbound
  /\ raised = "none"
  /\ \E n \in 1..MaxNormCols : comparison_df \in NormFrames(n)
  /\ answers_df = Unbound
  /\ formatted = Unbound
  /\ files = NoFiles
  /\ stdout = << >>
  /\ trace = << >>

NextNorm ==
  \/ NormalizationCell
  \/ NormalizationCellSaveFails
  \/ Renormalize

SpecNorm == InitNorm /\ [][NextNorm]_vars

\* ------------------------------------------------------------------------
\* The single-repository cell on its own.
\* ------------------------------------------------------------------------

NextSingle ==
  \/ SingleCell
  \/ ExtractRaises
  \/ ExtractReturns
  \/ AnalyzeRepoRaises
  \/ AnalyzeRepoReturns
  \/ FormatRaises
  \/ FormatAndSave
  \/ FormatAndSaveFails

SpecSingle == Init /\ [][NextSingle]_vars

\* ------------------------------------------------------------------------
\* Reading the trace.
\* ------------------------------------------------------------------------

\* The events of function fn for the URL at position p.
EventsOf(fn, p) ==
  {k \in 1..Len(trace) : trace[k].fn = fn /\ trace[k].pos = p}

\* analyze_github_repository has returned for the URL at position p.
Analysed(p) == EventsOf("analyze_github_repository", p) # {}

\* What it returned.
ReturnOf(p) ==
  trace[CHOOSE k \in EventsOf("analyze_github_repository", p) : TRUE].value

FetchRaised(p) ==
  \E k \in EventsOf("extract_repo_info", p) : trace[k].outcome = "raise"

FetchReturned(p) ==
  \E k \in EventsOf("extract_repo_info", p) : trace[k].outcome = "return"

CompletionRaised(p) ==
  \E k \in EventsOf("analyze_repo", p) : trace[k].outcome = "raise"

LastPrinted == IF stdout = << >> THEN "" ELSE stdout[Len(stdout)]

RECURSIVE NamesAt(_, _)
\* The repository names of the URLs at the positions of P among the first n,
\* in list order.
NamesAt(n, P) ==
  IF n = 0
    THEN << >>
    ELSE IF n \in P
           THEN Append(NamesAt(n - 1, P), Str(RepoName(repo_urls[n])))
           ELSE NamesAt(n - 1, P)

\* The positions whose analysis returned something other than None.
NonNullPositions == {i \in 1..Len(repo_urls) : Analysed(i) /\ ReturnOf(i) # None}

\* The positions whose analysis returned a value that is true in a condition.
TruthyPositions == {i \in 1..Len(repo_urls) : Analysed(i) /\ Truthy(ReturnOf(i))}

\* ------------------------------------------------------------------------
\* The claims.
\* ------------------------------------------------------------------------

\* C1 (as stated; the code violates it): whatever the two external calls do
\* for each URL - raise, or return any value, a bare string included - the
\* batch analyses every URL of the list and ends without raising.
C1_OneBadRepositoryNeverAborts ==
  /\ ~(pc = "error" /\ raised = "TypeError")
  /\ pc = "returned" => \A i \in 1..Len(repo_urls) : Analysed(i)

\* C2 (as stated; the code violates it): the rows of the returned table are
\* exactly the URLs whose analysis returned a result (non-null), in list order.
C2_RowsAreTheSuccessesInOrder ==
  pc = "returned" /\ ret # None =>
    ret.index = NamesAt(Len(repo_urls), NonNullPositions)

\* The order the code does keep: the rows are the URLs whose analysis returned
\* a value that is true in a condition, in list order.
BatchOrderOfTruthyResults ==
  pc = "returned" =>
    /\ ret # None => ret.index = NamesAt(Len(repo_urls), TruthyPositions)
    /\ ret = None => TruthyPositions = {}

\* C3: when extract_repo_info raises for a URL, analyze_github_repository
\* returns None for it (it does not raise) and analyze_repo is never called
\* for that URL.
C3_FetchFailureReturnsNone ==
  \A p \in 1..Len(repo_urls) :
    FetchRaised(p) =>
      /\ Analysed(p)
      /\ ReturnOf(p) = None
      /\ EventsOf("analyze_repo", p) = {}

C3_Witness ==
  /\ flow = "batch"
  /\ pc = "loop"
  /\ idx = 3
  /\ FetchRaised(1)
  /\ ~FetchRaised(2)

\* C4: when extract_repo_info returns and analyze_repo raises,
\* analyze_github_repository returns None (it does not raise); it returns a
\* value other than None only when both calls returned, and that value is
\* the one analyze_repo returned.
C4_CompletionFailureReturnsNone ==
  \A p \in 1..Len(repo_urls) :
    /\ CompletionRaised(p) => Analysed(p) /\ ReturnOf(p) = None
    /\ Analysed(p) /\ ReturnOf(p) # None =>
         /\ FetchReturned(p)
         /\ \E k \in EventsOf("analyze_repo", p) :
              trace[k].outcome = "return" /\ trace[k].value = ReturnOf(p)

C4_Witness ==
  /\ flow = "batch"
  /\ pc = "loop"
  /\ idx = 3
  /\ CompletionRaised(1)
  /\ Analysed(2)
  /\ ReturnOf(2) = ResultYesNo

\* C5 (as stated; the code violates it): every URL whose analysis returned a
\* result other than None - a mapping with no keys included - has added
\* exactly one row, and every URL whose analysis returned None has added none.
C5_OneRowPerNonNullResult ==
  pc = "loop" /\ flow = "batch" =>
    Len(results) = Cardinality({i \in 1..(idx - 1) : ReturnOf(i) # None})

\* C6 (as stated; the code violates it): for an empty URL list the batch
\* returns an empty table, prints the "no valid results" message and does
\* not raise.
C6_EmptyBatchReturnsEmptyTable ==
  pc = "returned" /\ repo_urls = << >> =>
    /\ ret.t = "frame"
    /\ ret.data = << >>
    /\ LastPrinted = "No valid analysis results"
    /\ raised = "none"

\* C6 (amended): for an empty URL list the batch returns None - no table -
\* after printing "No valid analysis results", and does not raise.
C6_EmptyBatchReturnsNone ==
  flow = "batch" /\ repo_urls = << >> =>
    /\ pc \in {"loop", "returned"}
    /\ raised = "none"
    /\ pc = "returned" =>
         ret = None /\ stdout = << "No valid analysis results" >>

C6_Witness == pc = "returned" /\ repo_urls = << >>

\* Every URL of a list that is not empty has been analysed, and every
\* analysis returned None.
AllFailed ==
  /\ flow = "batch"
  /\ repo_urls # << >>
  /\ \A i \in 1..Len(repo_urls) : Analysed(i) /\ ReturnOf(i) = None

\* C7: when every URL of a batch that is not empty fails, the batch returns
\* None after printing "No valid analysis results", does not raise and writes
\* no comparison file.
C7_AllFailedReturnsNone ==
  AllFailed =>
    /\ pc # "error"
    /\ raised = "none"
    /\ files = NoFiles
    /\ EventsOf("to_csv", Len(repo_urls) + 1) = {}
    /\ pc = "returned" =>
         ret = None /\ LastPrinted = "No valid analysis results"

C7_Witness == AllFailed /\ pc = "returned" /\ Len(repo_urls) = 2

\* The confidence-bearing columns whose question field, in result, is a bare
\* string instead of an answer record.
BareStringColumns ==
  {c \in {ConfidenceColumns[i] : i \in 1..Len(ConfidenceColumns)}
         \cup {LateConfidenceColumns[i] : i \in 1..Len(LateConfidenceColumns)} :
     IsDict(result) /\ HasKey(result, c[2]) /\ Get(result, c[2], None).t = "str"}

\* The single-repository cell has gone past its call of the formatter.
FormatterCalled == flow = "single" /\ pc \in {"error", "single_done"}

\* C8 (as stated; the code violates it): when a question field of the result
\* is a bare string, format_analysis_results does not fail, and the cell of
\* each such confidence-bearing column reads "Unknown (low)".
C8_BareStringFieldRendersUnknown ==
  FormatterCalled /\ BareStringColumns # {} =>
    /\ raised # "AttributeError"
    /\ formatted # Unbound
    /\ \A c \in BareStringColumns :
         Get(formatted, c[1], None) = Str("Unknown (low)")

\* The answer the normalization step reads in a cell.
AnswerIn(x) == IF IsDict(x) THEN Get(x, "answer", None) ELSE x

\* C9: the normalization step turns the answer "Yes" into true and "No" into
\* false, and passes every other answer through unchanged: true stays true,
\* 7 stays 7, ["a", "b"] stays ["a", "b"], and "yes" stays "yes".
C9_BooleanCoercion ==
  answers_df.t = "frame" /\ pc = "normalized" =>
    \A i \in 1..Len(comparison_df.data) : \A j \in 1..Len(comparison_df.columns) :
      LET a == AnswerIn(comparison_df.data[i][j])
          y == answers_df.data[i][j]
      IN  /\ a = Str("Yes") => y = Bool(TRUE)
          /\ a = Str("No") => y = Bool(FALSE)
          /\ a = Bool(TRUE) => y = Bool(TRUE)
          /\ a = Num(7) => y = Num(7)
          /\ a = List(<<"a", "b">>) => y = List(<<"a", "b">>)
          /\ a \notin {Str("Yes"), Str("No")} => y = a

C9_Witness ==
  /\ pc = "normalized"
  /\ Len(comparison_df.columns) = 2
  /\ comparison_df.data[1][1] = Record(Str("Yes"), "confidence", "high")
  /\ comparison_df.data[1][2] = Record(Str("yes"), "confidence", "high")
  /\ answers_df.data[1] = << Bool(TRUE), Str("yes") >>

\* C10: applying the normalization step to its own output changes nothing.
C10_NormalizationIdempotent ==
  [][pc = "normalized" /\ pc' = "renormalized" => answers_df' = answers_df]_vars

C10_Witness ==
  /\ pc = "renormalized"
  /\ comparison_df.data[1][1] = Record(Str("No"), "confidence_level", "high")
  /\ answers_df.data[1][1] = Bool(FALSE)

\* name is the last path segment of u once u's trailing slashes are dropped:
\* u is a prefix that is empty or ends in "/", then the segment, which holds
\* no "/", then slashes only.
IsIdentityOf(name, u) ==
  \E b \in 0..Len(u) :
    /\ b = 0 \/ u[b] # "/"
    /\ \A k \in (b + 1)..Len(u) : u[k] = "/"
    /\ \E a \in 0..b :
         /\ a = 0 \/ u[a] = "/"
         /\ \A k \in (a + 1)..b : u[k] # "/"
         /\ name = Str(Text(SubSeq(u, a + 1, b)))

\* The i-th smallest position of the set P.
NthPosition(P, i) == CHOOSE p \in P : Cardinality({q \in P : q < p}) = i - 1

\* C11: the "Repository Name" of every row is the last path segment of the
\* row's own URL - the URL whose analysis added the row - after its trailing
\* slashes are stripped, the index of the
\* returned table is these names, and https://github.com/org/repo/ and
\* https://github.com/org/repo both give "repo".
C11_RepositoryNameIsLastSegment ==
  LET added == TruthyPositions
      names == [i \in 1..Len(results) |->
                 Get(results[i], "Repository Name", None)]
  IN  /\ \A i \in 1..Len(results) :
           LET own == repo_urls[NthPosition(added, i)]
           IN  /\ IsIdentityOf(names[i], own)
               /\ own \in {UrlRepo, UrlRepoSlash} => names[i] = Str("repo")
      /\ pc = "returned" /\ ret # None => ret.index = names

C11_Witness ==
  /\ pc = "returned"
  /\ repo_urls = << UrlRepoSlash, UrlChat, UrlRepo >>
  /\ ret # None
  /\ ret.index = << Str("repo"), Str("repo") >>

\* The completion result that added the i-th row of results.
ResponseOfRow(i) == ReturnOf(NthPosition(TruthyPositions, i))

\* The default an absent question is said to be given: answer "Unknown",
\* confidence "low", under either confidence key.
IsUnknownLow(cell) ==
  /\ IsDict(cell)
  /\ Get(cell, "answer", None) = Str("Unknown")
  /\ Str("low") \in {Get(cell, "confidence_level", None),
                     Get(cell, "confidence", None)}

\* C12 (as stated; the code violates it): the columns of the returned table
\* are exactly the twelve question keys of the catalog - none missing, none
\* from outside it - and a question key a repository's completion result
\* lacks is, in that repository's row, the default answer "Unknown" with
\* confidence "low".
C12_ColumnsAreTheCatalog ==
  pc = "returned" /\ ret # None =>
    /\ {ret.columns[j] : j \in 1..Len(ret.columns)} = FormatterKeys
    /\ \A i \in 1..Len(ret.data) : \A j \in 1..Len(ret.columns) :
         /\ Len(ret.data[i]) = Len(ret.columns)
         /\ ~HasKey(ResponseOfRow(i), ret.columns[j]) =>
              IsUnknownLow(ret.data[i][j])

\* All the calls of function fn, whatever the URL.
CallsOf(fn) == {k \in 1..Len(trace) : trace[k].fn = fn}

\* C13: analyze_repo is called at most once for each URL of the list - no
\* two of its calls are for the same position -, exactly once for each URL
\* whose fetch returned and whose analysis has finished, and over a list of n
\* URLs at most n times in all.
C13_OneCompletionCallPerRepository ==
  LET calls == CallsOf("analyze_repo")
  IN  /\ \A j \in calls : \A k \in calls :
           trace[j].pos = trace[k].pos => j = k
      /\ \A r \in CallsOf("analyze_github_repository") :
           (\E f \in CallsOf("extract_repo_info") :
              trace[f].pos = trace[r].pos /\ trace[f].outcome = "return")
             => \E k \in calls : trace[k].pos = trace[r].pos
      /\ \A k \in calls : trace[k].pos \in 1..Len(repo_urls)
      /\ Cardinality(calls) <= Len(repo_urls)

C13_Witness ==
  /\ pc = "returned"
  /\ Len(repo_urls) = 3
  /\ FetchRaised(1)
  /\ FetchReturned(2) /\ FetchReturned(3)
  /\ Cardinality(CallsOf("analyze_repo")) = 2

\* The external calls made for the URL at position p.
ExternalCallsOf(p) == EventsOf("extract_repo_info", p) \cup EventsOf("analyze_repo", p)

\* C14: there is no retry.  extract_repo_info is called at most once for each
\* URL of the list - no two of its calls are for the same position - and
\* exactly once when the URL's analysis has finished, and once either external
\* call has raised for a URL, no external call follows for that URL.
C14_NoRetry ==
  LET fetches == CallsOf("extract_repo_info")
      external == fetches \cup CallsOf("analyze_repo")
  IN  /\ \A j \in fetches : \A k \in fetches :
           trace[j].pos = trace[k].pos => j = k
      /\ \A r \in CallsOf("analyze_github_repository") :
           \E f \in fetches : trace[f].pos = trace[r].pos
      /\ \A k \in external :
           trace[k].outcome = "raise" =>
             \A later \in external :
               trace[later].pos = trace[k].pos => later <= k

C14_Witness ==
  /\ pc = "returned"
  /\ Len(repo_urls) = 3
  /\ FetchRaised(1)
  /\ CompletionRaised(2)
  /\ Cardinality(ExternalCallsOf(1)) = 1
  /\ Cardinality(ExternalCallsOf(2)) = 2
  /\ Cardinality(ExternalCallsOf(3)) = 2

\* The index of the table the batch returned; no rows when it returned None.
ReturnedRows == IF ret = None THEN << >> ELSE ret.index

\* C15 (as stated; the code violates it): rows are not deduplicated.  The
\* returned table has as many rows as there were analyses that returned a
\* result (non-null), and as many rows of each repository name as there were
\* such analyses of URLs of that name: a URL listed k times, each analysis
\* succeeding, gives k rows.
C15_RowsAreTheSuccessfulAnalyses ==
  pc = "returned" =>
    /\ Len(ReturnedRows) = Cardinality(NonNullPositions)
    /\ \A u \in Urls :
         Cardinality({i \in 1..Len(ReturnedRows) :
                        ReturnedRows[i] = Str(RepoName(u))})
           = Cardinality({p \in NonNullPositions :
                            RepoName(repo_urls[p]) = RepoName(u)})

\* The write of the comparison file has raised.
ComparisonWriteRaised ==
  \E k \in CallsOf("to_csv") :
    /\ trace[k].outcome = "raise"
    /\ trace[k].value = Str("data/repository_comparison.csv")

\* C16: when the write of the comparison file raises, nothing catches the
\* error: the batch ends with it, analyze_multiple_repositories returns
\* nothing - comparison_df is never bound - and no comparison file exists.
C16_ComparisonWriteFailurePropagates ==
  ComparisonWriteRaised =>
    /\ pc = "error"
    /\ raised = "OSError"
    /\ ret = Unbound
    /\ comparison_df = Unbound
    /\ "data/repository_comparison.csv" \notin DOMAIN files

C16_Witness ==
  /\ ComparisonWriteRaised
  /\ pc = "error"
  /\ Len(results) = 2
  /\ Len(repo_urls) = 3

\* The writes of the comparison file, failed ones included.
ComparisonWrites ==
  {k \in CallsOf("to_csv") : trace[k].value = Str("data/repository_comparison.csv")}

\* The steps of the analyses: the external calls and the returns of
\* analyze_github_repository.
AnalysisSteps ==
  CallsOf("extract_repo_info") \cup CallsOf("analyze_repo")
    \cup CallsOf("analyze_github_repository")

\* C17: in a batch run the comparison file is written at most once, and only
\* once the analysis of every URL of the list has finished: no step of any
\* analysis follows the write, and the file, when it exists, holds every row.
C17_ComparisonWrittenOnceAtTheEnd ==
  /\ Cardinality(ComparisonWrites) <= 1
  /\ \A w \in ComparisonWrites :
       /\ \A p \in 1..Len(repo_urls) : Analysed(p)
       /\ \A k \in AnalysisSteps : k < w
  /\ "data/repository_comparison.csv" \in DOMAIN files =>
       /\ ComparisonWrites # {}
       /\ Len(files["data/repository_comparison.csv"].rows) = Len(results)

C17_Witness ==
  /\ pc = "returned"
  /\ Len(repo_urls) = 3
  /\ Len(results) = 2
  /\ Cardinality(ComparisonWrites) = 1
  /\ "data/repository_comparison.csv" \in DOMAIN files

\* The question keys in the order the catalog declares them.
CatalogOrder ==
  [i \in 1..Len(ConfidenceColumns) |-> ConfidenceColumns[i][2]]
    \o [i \in 1..Len(NarrativeColumns) |-> NarrativeColumns[i][2]]
    \o [i \in 1..Len(LateConfidenceColumns) |-> LateConfidenceColumns[i][2]]
    \o << "notes" >>

\* The place of a catalog key in that order.
CatalogIndex(key) == CHOOSE i \in 1..Len(CatalogOrder) : CatalogOrder[i] = key

\* The two tables the batch run and the normalization cell write.
OutputTables ==
  {"data/repository_comparison.csv", "data/formatted_repo_comparison.csv"}

\* The header starts with the repository identity, and the catalog's keys
\* after it stand in the catalog's order.
IdentityThenCatalogOrder(header) ==
  /\ header # << >>
  /\ header[1] = Str("Repository Name")
  /\ \A i \in 2..Len(header) : \A j \in (i + 1)..Len(header) :
       header[i].v \in FormatterKeys /\ header[j].v \in FormatterKeys =>
         CatalogIndex(header[i].v) < CatalogIndex(header[j].v)

\* C18 (as stated; the code violates it): each written output table - the
\* comparison file and the normalized file - has the repository identity as
\* its first column, followed by the question keys in catalog order.
C18_IdentityFirstThenCatalogOrder ==
  \A name \in OutputTables \cap DOMAIN files :
    IdentityThenCatalogOrder(files[name].header)

\* The confidence-bearing columns of the formatted table.
ConfidenceBearing ==
  {ConfidenceColumns[i] : i \in 1..Len(ConfidenceColumns)}
    \cup {LateConfidenceColumns[i] : i \in 1..Len(LateConfidenceColumns)}

\* Whether an answer record carries a confidence, under either key.
HasConfidence(field) ==
  IsDict(field) /\
    (HasKey(field, "confidence_level") \/ HasKey(field, "confidence"))

\* The confidence a record carries, under whichever key it came.
ReturnedConfidence(field) ==
  IF HasKey(field, "confidence_level")
    THEN Get(field, "confidence_level", None)
    ELSE Get(field, "confidence", None)

\* C19 (as stated; the code violates it): in the formatted table the cell of
\* each confidence-bearing column whose answer record came with a confidence
\* reads "{answer} ({confidence})" with that confidence, whether the record
\* carries it as confidence_level or as confidence.
C19_ConfidenceUnderEitherKey ==
  flow = "single" /\ formatted # Unbound =>
    \A c \in ConfidenceBearing :
      LET field == Field(result, c[2])
      IN  HasConfidence(field) /\ HasKey(field, "answer") =>
            Get(formatted, c[1], None) =
              Str(PyStr(Get(field, "answer", None)) \o " ("
                  \o PyStr(ReturnedConfidence(field)) \o ")")

\* The outcomes of the two external calls made for the URL at position p:
\* for each call whether it raised or returned, and what analyze_repo
\* returned.
OwnOutcomes(p) ==
  {<< trace[k].fn, trace[k].outcome,
      IF trace[k].fn = "analyze_repo" THEN trace[k].value ELSE None >> :
     k \in ExternalCallsOf(p)}

\* The value these outcomes alone give: what analyze_repo returned if it
\* returned, None otherwise.
OwnResult(p) ==
  IF \E o \in OwnOutcomes(p) : o[1] = "analyze_repo" /\ o[2] = "return"
    THEN (CHOOSE o \in OwnOutcomes(p) : o[1] = "analyze_repo" /\ o[2] = "return")[3]
    ELSE None

\* C20: the analyses are independent.  Whenever analyze_github_repository
\* has just returned in a batch, for the URL at position idx, the value it
\* returned is the one the outcomes of that URL's own two calls give; the
\* fetch was of the URL's own document; and every earlier analysis of the
\* batch with the same outcomes returned the same value, whatever was analysed
\* before either of them and whether it failed.
C20_AnalysesAreIndependent ==
  pc = "analyzed" /\ flow = "batch" =>
    /\ Cardinality(EventsOf("analyze_github_repository", idx)) = 1
    /\ result = ReturnOf(idx)
    /\ result = OwnResult(idx)
    /\ \A k \in EventsOf("extract_repo_info", idx) :
         trace[k].outcome = "return" =>
           trace[k].value = RepoData(repo_urls[idx])
    /\ \A q \in 1..(idx - 1) :
         OwnOutcomes(q) = OwnOutcomes(idx) => ReturnOf(q) = result

C20_Witness ==
  /\ pc = "analyzed"
  /\ flow = "batch"
  /\ idx = 3
  /\ ReturnOf(1) = ResultBool
  /\ CompletionRaised(2)
  /\ result = ResultBool
  /\ OwnOutcomes(1) = OwnOutcomes(3)

\* C21: the batch runs strictly in sequence.  The fetch for the first URL is
\* the first call of all, and the fetch for the URL at position i+1 comes
\* directly after the return of analyze_github_repository for the URL at
\* position i; within one analysis the completion call comes directly after
\* the fetch of the same URL has returned, and the analysis returns directly
\* after its own last external call; no call is made for a URL beyond the one
\* being analysed.
C21_StrictlySequential ==
  \A k \in 1..Len(trace) :
    LET e == trace[k]
    IN  /\ e.fn # "to_csv" => e.pos <= idx /\ e.pos \in 1..Len(repo_urls)
        /\ e.fn = "extract_repo_info" =>
             IF k = 1
               THEN e.pos = 1
               ELSE /\ trace[k - 1].fn = "analyze_github_repository"
                    /\ trace[k - 1].pos = e.pos - 1
        /\ e.fn = "analyze_repo" =>
             /\ k > 1
             /\ trace[k - 1].fn = "extract_repo_info"
             /\ trace[k - 1].outcome = "return"
             /\ trace[k - 1].pos = e.pos
        /\ e.fn = "analyze_github_repository" =>
             /\ k > 1
             /\ trace[k - 1].fn \in {"extract_repo_info", "analyze_repo"}
             /\ trace[k - 1].pos = e.pos

C21_Witness ==
  /\ pc = "returned"
  /\ Len(repo_urls) = 3
  /\ ReturnOf(1) = ResultYesNo
  /\ FetchRaised(2)
  /\ ReturnOf(3) = ResultBool
  /\ Len(trace) = 9

\* "Yes" as true, "No" as false, any other value itself.
Coerced(a) ==
  CASE a = Str("Yes") -> Bool(TRUE)
    [] a = Str("No") -> Bool(FALSE)
    [] OTHER -> a

\* C22 (as stated; the code violates it): the normalization step raises for
\* no cell, the normalized cell of a structured record is the record's
\* answer value, and a cell that is no structured record is passed through.
C22_ExtractsOnlyTheAnswer ==
  /\ pc = "error" => raised = "OSError" /\ answers_df.t = "frame"
  /\ answers_df.t = "frame" =>
       \A i \in 1..Len(comparison_df.data) :
         \A j \in 1..Len(comparison_df.columns) :
           LET x == comparison_df.data[i][j]
               y == answers_df.data[i][j]
           IN  /\ IsDict(x) => y = Get(x, "answer", None)
               /\ ~IsDict(x) => y = x

\* C22 (amended): the normalization step raises for no cell - only its write
\* can fail, after answers_df is computed.  The normalized cell of a
\* structured record is the record's answer value and never the record (None
\* when the record has no answer), a cell that is no structured record is
\* passed through, and in both cases "Yes" has become true and "No" false.
C22_ExtractsAnswerThenCoerces ==
  /\ pc = "cell_done" /\ comparison_df.t = "frame" => ENABLED NormalizationCell
  /\ pc = "error" => raised = "OSError" /\ answers_df.t = "frame"
  /\ answers_df.t = "frame" =>
       /\ Len(answers_df.data) = Len(comparison_df.data)
       /\ \A i \in 1..Len(comparison_df.data) :
            /\ Len(answers_df.data[i]) = Len(comparison_df.columns)
            /\ \A j \in 1..Len(comparison_df.columns) :
                 LET x == comparison_df.data[i][j]
                     y == answers_df.data[i][j]
                 IN  /\ IsDict(x) =>
                          /\ y = Coerced(Get(x, "answer", None))
                          /\ ~IsDict(y)
                     /\ ~IsDict(x) => y = Coerced(x)
                     /\ x = NaN => y = NaN

C22_Witness ==
  /\ pc = "normalized"
  /\ Len(comparison_df.columns) = 2
  /\ comparison_df.data[1][1] = Record(List(<<"a", "b">>), "confidence", "high")
  /\ comparison_df.data[1][2] = Dict(<< <<"explanation", Str("because")>> >>)
  /\ answers_df.data[1] = << List(<<"a", "b">>), None >>

\* C23 (as stated; the code violates it): in the single-repository cell, when
\* analyze_github_repository has returned None the cell ends without raising
\* and without writing an analysis file, and the formatter is not applied.
C23_NullResultEndsQuietly ==
  flow = "single" /\ result = None =>
    /\ raised = "none"
    /\ pc # "error"
    /\ formatted = Unbound
    /\ files = NoFiles

\* C24: the results list of a batch is append-only.  In every step its rows
\* stay as they are, in their places, and at most one row is added after
\* them; a row is added only by the step that ends the processing of a URL;
\* the list is never longer than the number of URLs processed so far; and the
\* step that ends the processing of a URL whose analysis returned None leaves
\* the list as it is.
C24_ResultsAppendOnly ==
  [][/\ Len(results') >= Len(results)
     /\ SubSeq(results', 1, Len(results)) = results
     /\ Len(results') <= Len(results) + 1
     /\ Len(results') <= idx' - 1
     /\ Len(results') = Len(results) + 1 => pc = "analyzed" /\ idx' = idx + 1
     /\ pc = "analyzed" /\ flow = "batch" /\ result = None =>
          results' = results]_vars

C24_Witness ==
  /\ pc = "loop"
  /\ idx = 4
  /\ FetchRaised(2)
  /\ Len(results) = 2
  /\ Get(results[1], "rbac_enabled", None) # Get(results[2], "rbac_enabled", None)

\* C25: the normalization cell leaves the batch's comparison table as it is -
\* comparison_df, the table the batch returned and the comparison file - and
\* binds answers_df to a table with the same rows in the same order (the
\* same index) and the same question columns in the same order.
C25_NormalizationLeavesComparisonTable ==
  [][pc = "cell_done" /\ comparison_df.t = "frame" =>
       /\ comparison_df' = comparison_df
       /\ ret' = ret
       /\ results' = results
       /\ \A name \in DOMAIN files : files'[name] = files[name]
       /\ answers_df'.t = "frame"
       /\ answers_df'.index = comparison_df.index
       /\ answers_df'.index_name = comparison_df.index_name
       /\ answers_df'.columns = comparison_df.columns
       /\ Len(answers_df'.data) = Len(comparison_df.data)
       /\ \A i \in 1..Len(comparison_df.data) :
            Len(answers_df'.data[i]) = Len(comparison_df.columns)]_vars

C25_Witness ==
  /\ pc = "normalized"
  /\ comparison_df.index = << Str("repo"), Str("chat") >>
  /\ answers_df.index = << Str("repo"), Str("chat") >>
  /\ answers_df # comparison_df
  /\ comparison_df = ret
  /\ DOMAIN files = OutputTables

====
